---- MODULE Spec2Model ----
(***************************************************************************)
(* Model of src/src/edits.rs: tokenize, annotate and infer_edits.          *)
(*                                                                         *)
(* A line (Rust &str) is a sequence of characters; each character is a     *)
(* one-character string and occupies Utf8Len bytes.  Offsets are byte      *)
(* offsets, as in the code.  None of the modelled characters is a          *)
(* combining mark, so one character is one grapheme cluster.               *)
(***************************************************************************)
EXTENDS Integers, Sequences, FiniteSets, TLC

\* ---------------------------------------------------------------- bounds
MaxLineLen == 2
MaxMinusLines == 2
MaxPlusLines == 3
MaxExcess == 1

\* ------------------------------------------------------------- strings
Alphabet == {"a", "á", " ", ","}

Utf8Len(c) == IF c = "á" THEN 2 ELSE 1

RECURSIVE len(_)
len(s) == IF s = <<>> THEN 0 ELSE Utf8Len(Head(s)) + len(Tail(s))

is_char_boundary(s, off) == \E k \in 0..Len(s) : len(SubSeq(s, 1, k)) = off

\* &s[from..to]; callers check the boundaries first (Rust panics otherwise).
Slice(s, from, to) ==
    LET i == CHOOSE k \in 0..Len(s) : len(SubSeq(s, 1, k)) = from
        j == CHOOSE k \in 0..Len(s) : len(SubSeq(s, 1, k)) = to
    IN  SubSeq(s, i + 1, j)

RECURSIVE Concat(_)
Concat(ss) == IF ss = <<>> THEN <<>> ELSE Head(ss) \o Concat(Tail(ss))

SetMin(S) == CHOOSE m \in S : \A o \in S : m <= o
SetMax(S) == CHOOSE m \in S : \A o \in S : m >= o

RECURSIVE LinesUpTo(_)
LinesUpTo(n) ==
    IF n = 0 THEN {<<>>}
    ELSE LET shorter == LinesUpTo(n - 1)
         IN  shorter \cup {Append(l, c) : l \in shorter, c \in Alphabet}

\* ------------------------------------------------------------ tokenize
separators == {" ", ",", ";", ".", ":", "(", ")", "[", "]", "<", ">"}

\* separators.find_iter(line): the maximal separator runs after character
\* index k, left to right, as byte ranges.
RECURSIVE find_iter(_, _)
find_iter(line, k) ==
    LET starts == {i \in (k + 1)..Len(line) : line[i] \in separators}
    IN  IF starts = {} THEN <<>>
        ELSE LET s == SetMin(starts)
                 e == SetMax({j \in s..Len(line) :
                                 \A m \in s..j : line[m] \in separators})
             IN  <<[start |-> len(SubSeq(line, 1, s - 1)),
                    end |-> len(SubSeq(line, 1, e))]>> \o find_iter(line, e)

RECURSIVE tokenize_loop(_, _, _, _)
tokenize_loop(line, ms, offset, tokens) ==
    IF ms = <<>> THEN [offset |-> offset, tokens |-> tokens]
    ELSE LET m == Head(ms)
         IN  tokenize_loop(line, Tail(ms), m.end,
                 tokens \o <<Slice(line, offset, m.start),
                             Slice(line, m.start, m.end)>>)

tokenize_trailing(line) ==
    LET r == tokenize_loop(line, find_iter(line, 0), 0, <<>>)
    IN  IF r.offset <= len(line)
        THEN Append(r.tokens, Slice(line, r.offset, len(line)))
        ELSE r.tokens

tokenize(line) ==
    LET r == tokenize_loop(line, find_iter(line, 0), 0, <<>>)
    IN  IF r.offset < len(line)
        THEN Append(r.tokens, Slice(line, r.offset, len(line)))
        ELSE r.tokens

\* ------------------------------------------------ alignment edit scripts
Operations == {"Deletion", "NoOp", "Substitution", "Insertion"}

ConsumesX(op) == IF op = "Insertion" THEN 0 ELSE 1
ConsumesY(op) == IF op = "Deletion" THEN 0 ELSE 1

\* The run-length-coalesced scripts (adjacent runs differ in operation, each
\* run has n >= 1) that consume exactly rx tokens of x and ry tokens of y
\* and do not start with operation prev.
RECURSIVE ScriptsConsuming(_, _, _)
ScriptsConsuming(rx, ry, prev) ==
    IF rx = 0 /\ ry = 0 THEN {<<>>}
    ELSE UNION {
           {<<r>> \o s : s \in ScriptsConsuming(rx - r[2] * ConsumesX(r[1]),
                                                 ry - r[2] * ConsumesY(r[1]),
                                                 r[1])} :
           r \in {q \in (Operations \ {prev}) \X (1..(rx + ry)) :
                     /\ q[2] * ConsumesX(q[1]) <= rx
                     /\ q[2] * ConsumesY(q[1]) <= ry}}

\* A line of at most MaxLineLen characters that starts with a separator and
\* then alternates has MaxLineLen + 1 tokens; scripts are tabulated up to
\* MaxExcess tokens beyond that.
MaxTokens == MaxLineLen + 1 + MaxExcess

ScriptTable ==
    [nx \in 0..MaxTokens, ny \in 0..MaxTokens |->
        ScriptsConsuming(nx, ny, "none")]

\* The alignment engine's contract: align::Alignment::coalesced_operations()
\* returns some coalesced script consuming every token of x and of y.
coalesced_operations(nx, ny) == ScriptTable[nx, ny]

\* An engine that may break the contract: its script consumes up to
\* MaxExcess tokens more or fewer than the two sides have.
unchecked_operations(nx, ny) ==
    LET Off(c, k) == IF c > k THEN c - k ELSE k - c
    IN  UNION {ScriptTable[q[1], q[2]] :
                 q \in {r \in (0..(nx + MaxExcess)) \X (0..(ny + MaxExcess)) :
                           Off(r[1], nx) + Off(r[2], ny) <= MaxExcess}}

\* ------------------------------------------------------------- annotate
White_Space == {" "}

RECURSIVE trim_start(_)
trim_start(s) ==
    IF s # <<>> /\ Head(s) \in White_Space THEN trim_start(Tail(s)) ELSE s

RECURSIVE trim_end(_)
trim_end(s) ==
    IF s # <<>> /\ s[Len(s)] \in White_Space
    THEN trim_end(SubSeq(s, 1, Len(s) - 1)) ELSE s

trim(s) == trim_end(trim_start(s))

distance_contribution_untrimmed(section) == Len(section)

\* section.trim().graphemes(true).count()
distance_contribution(section) == Len(trim(section))

Panic == [panicked |-> TRUE]

get_section_stuck(n, line_offset, substrings_offset, substrings, line) ==
    IF substrings_offset + n > Len(substrings) THEN Panic
    ELSE LET section_length ==
                 len(Concat(SubSeq(substrings, substrings_offset + 1,
                                   substrings_offset + n)))
             end == line_offset + section_length
         IN  IF \/ end > len(line)
                \/ ~is_char_boundary(line, line_offset)
                \/ ~is_char_boundary(line, end)
             THEN Panic
             ELSE [panicked |-> FALSE,
                   section |-> Slice(line, line_offset, end),
                   line_offset |-> line_offset,
                   substrings_offset |-> substrings_offset + n]

get_section_from_start(n, line_offset, substrings_offset, substrings, line) ==
    IF substrings_offset + n > Len(substrings) THEN Panic
    ELSE LET section_length ==
                 len(Concat(SubSeq(substrings, substrings_offset + 1,
                                   substrings_offset + n)))
             end == line_offset + section_length
         IN  IF end > len(line) \/ ~is_char_boundary(line, end)
             THEN Panic
             ELSE [panicked |-> FALSE,
                   section |-> Slice(line, 0, end),
                   line_offset |-> end,
                   substrings_offset |-> substrings_offset + n]

\* The closure get_section: the slice of line covered by the next n
\* substrings, and the advanced offsets.  Indexing past the end of
\* substrings, or slicing off a character boundary, panics.
get_section(n, line_offset, substrings_offset, substrings, line) ==
    IF substrings_offset + n > Len(substrings) THEN Panic
    ELSE LET section_length ==
                 len(Concat(SubSeq(substrings, substrings_offset + 1,
                                   substrings_offset + n)))
             end == line_offset + section_length
         IN  IF \/ end > len(line)
                \/ ~is_char_boundary(line, line_offset)
                \/ ~is_char_boundary(line, end)
             THEN Panic
             ELSE [panicked |-> FALSE,
                   section |-> Slice(line, line_offset, end),
                   line_offset |-> end,
                   substrings_offset |-> substrings_offset + n]

\* What one (op, n) of the script adds to the state of annotate's loop.
annotate_op(st, r, alignment, noop_deletion, deletion, noop_insertion, insertion, minus_line, plus_line) ==
    LET op == r[1]
        n == r[2]
        ms == get_section(n, st.minus_line_offset, st.x_offset,
                          alignment.x, minus_line)
        ps == get_section(n, st.plus_line_offset, st.y_offset,
                          alignment.y, plus_line)
        TakeMinus(s, label, numer) ==
            [s EXCEPT !.minus_line_offset = ms.line_offset,
                      !.x_offset = ms.substrings_offset,
                      !.d_denom = @ + distance_contribution(ms.section),
                      !.d_numer = @ + (IF numer
                                       THEN distance_contribution(ms.section)
                                       ELSE 0),
                      !.annotated_minus_line =
                          Append(@, <<label, ms.section>>)]
        TakePlus(s, label, counted) ==
            [s EXCEPT !.plus_line_offset = ps.line_offset,
                      !.y_offset = ps.substrings_offset,
                      !.d_denom = @ + (IF counted
                                       THEN distance_contribution(ps.section)
                                       ELSE 0),
                      !.d_numer = @ + (IF counted
                                       THEN distance_contribution(ps.section)
                                       ELSE 0),
                      !.annotated_plus_line =
                          Append(@, <<label, ps.section>>)]
    IN  CASE op = "Deletion" ->
               IF ms.panicked THEN Panic ELSE TakeMinus(st, deletion, TRUE)
          [] op = "NoOp" ->
               IF ms.panicked \/ ps.panicked THEN Panic
               ELSE TakePlus(TakeMinus(st, noop_deletion, FALSE),
                             noop_insertion, FALSE)
          [] op = "Substitution" ->
               IF ms.panicked \/ ps.panicked THEN Panic
               ELSE TakePlus(TakeMinus(st, deletion, TRUE), insertion, FALSE)
          [] op = "Insertion" ->
               IF ps.panicked THEN Panic ELSE TakePlus(st, insertion, TRUE)

RECURSIVE annotate_loop(_, _, _, _, _, _, _, _, _)
annotate_loop(ops, st, alignment, noop_deletion, deletion, noop_insertion, insertion, minus_line, plus_line) ==
    IF st.panicked \/ ops = <<>> THEN st
    ELSE annotate_loop(Tail(ops),
             annotate_op(st, Head(ops), alignment, noop_deletion, deletion,
                         noop_insertion, insertion, minus_line, plus_line),
             alignment, noop_deletion, deletion, noop_insertion, insertion,
             minus_line, plus_line)

\* annotate: alignment is [x, y, ops]; the returned distance is the pair
\* d_numer, d_denom (the code divides them as f64).
annotate(alignment, noop_deletion, deletion, noop_insertion, insertion, minus_line, plus_line) ==
    annotate_loop(alignment.ops,
        [panicked |-> FALSE, x_offset |-> 0, y_offset |-> 0,
         minus_line_offset |-> 0, plus_line_offset |-> 0,
         d_numer |-> 0, d_denom |-> 0,
         annotated_minus_line |-> <<>>, annotated_plus_line |-> <<>>],
        alignment, noop_deletion, deletion, noop_insertion, insertion,
        minus_line, plus_line)

\* ---------------------------------------------------------- infer_edits
\* The four caller-supplied labels (the values the tests pass).
MinusNoop == "MinusNoop"
Deletion == "Deletion"
PlusNoop == "PlusNoop"
Insertion == "Insertion"

\* max_line_distance values, as exact fractions num/den.
MaxLineDistances ==
    {[num |-> 0, den |-> 1], [num |-> 33, den |-> 50], [num |-> 1, den |-> 1]}

\* distance <= max_line_distance, where distance is the f64 quotient
\* d_numer / d_denom: 0/0 is NaN, and NaN <= t is false.  d_numer never
\* exceeds d_denom, so the quotient is never infinite.
distance_le_flipped(d_numer, d_denom, max) ==
    d_denom # 0 /\ d_numer * max.den >= max.num * d_denom

distance_le(d_numer, d_denom, max) ==
    d_denom # 0 /\ d_numer * max.den <= max.num * d_denom

skipped_plus_short(emitted_, considered_) ==
    [k \in 1..(considered_ - 1) |-> emitted_ + k]

\* &plus_lines[emitted..(emitted + considered)], as 1-based indices.
skipped_plus(emitted_, considered_) ==
    [k \in 1..considered_ |-> emitted_ + k]

emitted_after_match_stale(emitted_, considered_) == emitted_ + considered_

\* emitted += considered; emitted += 1
emitted_after_match(emitted_, considered_) == emitted_ + considered_ + 1

\* &plus_lines[emitted..], as 1-based indices.
remaining_plus(emitted_, n) == [k \in 1..(n - emitted_) |-> emitted_ + k]

unpaired_minus_highlighted(noop_deletion, deletion, minus_line) ==
    <<<<deletion, minus_line>>>>

\* vec![(noop_deletion, minus_line)]
unpaired_minus(noop_deletion, deletion, minus_line) ==
    <<<<noop_deletion, minus_line>>>>

\* vec![(noop_insertion, plus_line)]
unpaired_plus(noop_insertion, plus_line) == <<<<noop_insertion, plus_line>>>>

VARIABLES
    minus_lines,            \* input
    plus_lines,             \* input
    max_line_distance,      \* input
    pc,                     \* "scan" | "done" | "panicked"
    minus_index,            \* minus lines the outer loop has finished
    emitted,
    considered,
    annotated_minus_lines,
    annotated_plus_lines,
    minus_from,             \* history: input index of each annotated minus line
    plus_from,              \* history: input index of each annotated plus line
    pairing,                \* history: the homologous pairs <<i, j>> (1-based)
    last,                   \* history: the latest call of annotate
    engine,                 \* scripts the engine has answered (when remembered)
    first_run               \* history: the outcome of an earlier call

vars == <<minus_lines, plus_lines, max_line_distance, pc, minus_index, emitted,
          considered, annotated_minus_lines, annotated_plus_lines, minus_from,
          plus_from, pairing, last, engine, first_run>>

inputs == <<minus_lines, plus_lines>>

NoCall == [compared |-> FALSE]
NoRun == [done |-> FALSE]

\* The lines of the blocks: between them they have no token, one token, a
\* white-space separator alone (an empty first token), a two-byte character
\* followed by a separator that is not white space.
LinePool == {<<>>, <<"a">>, <<" ">>, <<"á", ",">>}

RECURSIVE Blocks(_, _)
Blocks(pool, n) ==
    IF n = 0 THEN {<<>>}
    ELSE LET shorter == Blocks(pool, n - 1)
         IN  shorter \cup {Append(b, l) : b \in shorter, l \in pool}

Start(minus, plus, max) ==
    /\ minus_lines = minus
    /\ plus_lines = plus
    /\ max_line_distance = max
    /\ pc = "scan"
    /\ minus_index = 0
    /\ emitted = 0
    /\ considered = 0
    /\ annotated_minus_lines = <<>>
    /\ annotated_plus_lines = <<>>
    /\ minus_from = <<>>
    /\ plus_from = <<>>
    /\ pairing = {}
    /\ last = NoCall
    /\ engine = <<>>
    /\ first_run = NoRun

Init ==
    \E minus \in Blocks(LinePool, MaxMinusLines),
       plus \in Blocks(LinePool, MaxPlusLines),
       max \in MaxLineDistances :
        Start(minus, plus, max)

\* One (minus line, plus line) block of any lines up to MaxLineLen.
InitPair ==
    \E minus_line \in LinesUpTo(MaxLineLen), plus_line \in LinesUpTo(MaxLineLen),
       max \in MaxLineDistances :
        Start(<<minus_line>>, <<plus_line>>, max)

Scanning ==
    /\ pc = "scan"
    /\ minus_index < Len(minus_lines)
    /\ emitted + considered < Len(plus_lines)

\* The body of the inner loop up to the test of distance, for script ops:
\* Alignment::new(tokenize(minus_line), tokenize(plus_line)), then annotate.
Compared(minus_line, plus_line, x, y, ops) ==
    LET alignment == [x |-> x, y |-> y, ops |-> ops]
    IN  [compared |-> TRUE,
         minus_line |-> minus_line,
         plus_line |-> plus_line,
         alignment |-> alignment,
         contract |-> ops \in coalesced_operations(Len(x), Len(y)),
         result |-> annotate(alignment, MinusNoop, Deletion, PlusNoop,
                             Insertion, minus_line, plus_line)]

\* Every outcome of comparing the two lines, over the engine's answers.
Calls(minus_line, plus_line, contract) ==
    LET x == tokenize(minus_line)
        y == tokenize(plus_line)
    IN  {Compared(minus_line, plus_line, x, y, ops) :
            ops \in IF contract THEN coalesced_operations(Len(x), Len(y))
                    ELSE unchecked_operations(Len(x), Len(y))}

\* Calls under the engine's contract, tabulated for the lines of LinePool.
ContractCalls ==
    [minus_line \in LinePool, plus_line \in LinePool |->
        Calls(minus_line, plus_line, TRUE)]

\* The outcomes possible for the pair now compared.  When the engine's
\* answers are remembered, a pair compared before gets the same script.
Outcomes(contract, remember) ==
    LET minus_line == minus_lines[minus_index + 1]
        plus_line == plus_lines[emitted + considered + 1]
        key == <<minus_line, plus_line>>
        all == IF contract THEN ContractCalls[minus_line, plus_line]
               ELSE Calls(minus_line, plus_line, FALSE)
    IN  IF remember /\ key \in DOMAIN engine
        THEN {c \in all : c.alignment.ops = engine[key]}
        ELSE all

Remembered(c, remember) ==
    IF remember
    THEN (<<c.minus_line, c.plus_line>> :> c.alignment.ops) @@ engine
    ELSE engine

\* One iteration of the inner loop: compare minus_line with the next plus
\* line.  annotate may panic (infer_edits then returns nothing); otherwise
\* the pair is homologous when distance <= max_line_distance, and else the
\* plus line counts as considered.
Compare(contract, remember) ==
    /\ Scanning
    /\ \E c \in Outcomes(contract, remember) :
         LET accepted == /\ ~c.result.panicked
                         /\ distance_le(c.result.d_numer, c.result.d_denom,
                                        max_line_distance)
             skipped == skipped_plus(emitted, considered)
             matched == emitted + considered + 1
         IN  /\ last' = [compared |-> TRUE, minus_line |-> c.minus_line,
                         plus_line |-> c.plus_line, alignment |-> c.alignment,
                         contract |-> c.contract, result |-> c.result,
                         accepted |-> accepted]
             /\ engine' = Remembered(c, remember)
             /\ IF c.result.panicked
                THEN /\ pc' = "panicked"
                     /\ UNCHANGED <<minus_index, emitted, considered,
                                    annotated_minus_lines, annotated_plus_lines,
                                    minus_from, plus_from, pairing>>
                ELSE IF accepted
                THEN /\ annotated_plus_lines' =
                            annotated_plus_lines
                            \o [k \in DOMAIN skipped |->
                                   unpaired_plus(PlusNoop,
                                                 plus_lines[skipped[k]])]
                            \o <<c.result.annotated_plus_line>>
                     /\ plus_from' = plus_from \o skipped \o <<matched>>
                     /\ annotated_minus_lines' =
                            Append(annotated_minus_lines,
                                   c.result.annotated_minus_line)
                     /\ minus_from' = Append(minus_from, minus_index + 1)
                     /\ pairing' = pairing \cup {<<minus_index + 1, matched>>}
                     /\ emitted' = emitted_after_match(emitted, considered)
                     /\ considered' = 0
                     /\ minus_index' = minus_index + 1
                     /\ pc' = pc
                ELSE /\ considered' = considered + 1
                     /\ UNCHANGED <<pc, minus_index, emitted,
                                    annotated_minus_lines, annotated_plus_lines,
                                    minus_from, plus_from, pairing>>
    /\ UNCHANGED <<inputs, max_line_distance, first_run>>

\* No homolog was found for the minus line; emit it as unpaired.
Unpaired ==
    /\ pc = "scan"
    /\ minus_index < Len(minus_lines)
    /\ emitted + considered = Len(plus_lines)
    /\ annotated_minus_lines' =
           Append(annotated_minus_lines,
                  unpaired_minus(MinusNoop, Deletion,
                                 minus_lines[minus_index + 1]))
    /\ minus_from' = Append(minus_from, minus_index + 1)
    /\ minus_index' = minus_index + 1
    /\ considered' = 0
    /\ UNCHANGED <<inputs, max_line_distance, pc, emitted, annotated_plus_lines,
                   plus_from, pairing, last, engine, first_run>>

\* After the last minus line: emit any remaining plus lines and return.
EmitRemaining ==
    /\ pc = "scan"
    /\ minus_index = Len(minus_lines)
    /\ LET rest == remaining_plus(emitted, Len(plus_lines))
       IN  /\ annotated_plus_lines' =
                  annotated_plus_lines
                  \o [k \in DOMAIN rest |->
                         unpaired_plus(PlusNoop, plus_lines[rest[k]])]
           /\ plus_from' = plus_from \o rest
    /\ pc' = "done"
    /\ UNCHANGED <<inputs, max_line_distance, minus_index, emitted, considered,
                   annotated_minus_lines, minus_from, pairing, last, engine,
                   first_run>>

CompareUnderContract == Compare(TRUE, FALSE)

Next ==
    \/ CompareUnderContract
    \/ Unpaired
    \/ EmitRemaining

Spec == Init /\ [][Next]_vars

CompareUnchecked == Compare(FALSE, FALSE)

NextAnnotate ==
    \/ CompareUnchecked
    \/ Unpaired
    \/ EmitRemaining

SpecAnnotate == InitPair /\ [][NextAnnotate]_vars

\* infer_edits called a second time on the same block with a threshold at
\* least as large; the engine is a function of the two token sequences.
CompareRemembering == Compare(TRUE, TRUE)

CallAgain ==
    /\ pc = "done"
    /\ ~first_run.done
    /\ \E max \in MaxLineDistances :
         /\ max_line_distance.num * max.den <= max.num * max_line_distance.den
         /\ max_line_distance' = max
    /\ first_run' = [done |-> TRUE, pairing |-> pairing,
                     max_line_distance |-> max_line_distance]
    /\ pc' = "scan"
    /\ minus_index' = 0
    /\ emitted' = 0
    /\ considered' = 0
    /\ annotated_minus_lines' = <<>>
    /\ annotated_plus_lines' = <<>>
    /\ minus_from' = <<>>
    /\ plus_from' = <<>>
    /\ pairing' = {}
    /\ last' = NoCall
    /\ UNCHANGED <<inputs, engine>>

NextThreshold ==
    \/ CompareRemembering
    \/ Unpaired
    \/ EmitRemaining
    \/ CallAgain

\* Blocks whose lines are a white-space separator or one content token:
\* their distances are 0, 1 and NaN.
InitThreshold ==
    \E minus \in Blocks({<<" ">>, <<"a">>}, MaxMinusLines),
       plus \in Blocks({<<" ">>, <<"a">>}, MaxMinusLines),
       max \in MaxLineDistances :
        Start(minus, plus, max)

SpecThreshold == InitThreshold /\ [][NextThreshold]_vars

\* ------------------------------------------------------------ properties
\* The text of an annotated line: its substrings, concatenated in order.
RECURSIVE Text(_)
Text(annotated_line) ==
    IF annotated_line = <<>> THEN <<>>
    ELSE Head(annotated_line)[2] \o Text(Tail(annotated_line))

PairedMinus(pairs) == {p[1] : p \in pairs}
PairedPlus(pairs) == {p[2] : p \in pairs}

\* The runs of a script that keeps the contract, each with the text of the
\* tokens it consumes on either side.
RECURSIVE Runs(_, _, _)
Runs(ops, x, y) ==
    IF ops = <<>> THEN <<>>
    ELSE LET op == Head(ops)[1]
             nx == Head(ops)[2] * ConsumesX(op)
             ny == Head(ops)[2] * ConsumesY(op)
         IN  <<[op |-> op,
                minus |-> Concat(SubSeq(x, 1, nx)),
                plus |-> Concat(SubSeq(y, 1, ny))]>>
             \o Runs(Tail(ops), SubSeq(x, nx + 1, Len(x)),
                     SubSeq(y, ny + 1, Len(y)))

LastRuns == Runs(last.alignment.ops, last.alignment.x, last.alignment.y)

\* annotate returned, for a script that keeps the engine's contract.
Annotated == last.compared /\ last.contract /\ ~last.result.panicked

\* The f64 quotient d_numer / d_denom equals 0.0 (0/0 is NaN, which does not).
DistanceIsZero == last.result.d_denom # 0 /\ last.result.d_numer = 0

\* The section a run adds to the distance: the plus side for an Insertion,
\* the minus side for every other operation.
Contributing(run) == IF run.op = "Insertion" THEN run.plus ELSE run.minus

HasSameLabelTwice(annotated_line) ==
    \E k \in 1..(Len(annotated_line) - 1) :
        annotated_line[k][1] = annotated_line[k + 1][1]

\* C1: every annotated line infer_edits has produced, paired or unpaired,
\* minus or plus, reconstructs the input line it annotates: its substrings
\* concatenated in order are exactly that line (under the engine's contract).
ReconstructionInvariant ==
    /\ \A k \in DOMAIN annotated_minus_lines :
         Text(annotated_minus_lines[k]) = minus_lines[minus_from[k]]
    /\ \A k \in DOMAIN annotated_plus_lines :
         Text(annotated_plus_lines[k]) = plus_lines[plus_from[k]]

\* A pair whose two annotated lines have several sections, the minus line
\* with a two-byte character, beside an unpaired plus line.
ReconstructionWitness ==
    /\ pc = "done"
    /\ \E p \in pairing :
         /\ Len(annotated_minus_lines[p[1]]) >= 2
         /\ Len(annotated_plus_lines[p[2]]) >= 2
         /\ minus_lines[p[1]] = <<"á", ",">>
    /\ \E j \in 1..Len(plus_lines) :
         j \notin PairedPlus(pairing) /\ plus_lines[j] # <<>>

\* C2: when infer_edits returns, each output list has one entry per input
\* line of its side, and the k-th entry annotates the k-th input line.
OrderPreservation ==
    pc = "done" =>
        /\ Len(annotated_minus_lines) = Len(minus_lines)
        /\ Len(annotated_plus_lines) = Len(plus_lines)
        /\ \A k \in 1..Len(minus_lines) :
             /\ minus_from[k] = k
             /\ Text(annotated_minus_lines[k]) = minus_lines[k]
        /\ \A k \in 1..Len(plus_lines) :
             /\ plus_from[k] = k
             /\ Text(annotated_plus_lines[k]) = plus_lines[k]

\* Three different plus lines: the first skipped, the second matched, the
\* third left over.
OrderPreservationWitness ==
    /\ pc = "done"
    /\ Len(plus_lines) = 3
    /\ PairedPlus(pairing) = {2}
    /\ Cardinality({plus_lines[j] : j \in 1..3}) = 3
    /\ Len(minus_lines) = 2

\* C3: matching is monotonic: the cursor emitted never decreases, and of any
\* two pairs the one with the later minus line has the later plus line (so
\* no plus line is paired twice).
MonotonicMatching ==
    [][/\ emitted' >= emitted
       /\ \A p \in pairing', q \in pairing' : p[1] < q[1] => p[2] < q[2]
       /\ \A p \in pairing' : p[2] <= emitted']_vars

\* Both minus lines are paired, with a skipped plus line between the matches.
MonotonicMatchingWitness ==
    /\ pc = "done"
    /\ pairing = {<<1, 1>>, <<2, 3>>}

\* C4 as stated: every line paired under the smaller threshold is paired
\* under the larger one.
ThresholdMonotone ==
    (pc = "done" /\ first_run.done) =>
        /\ PairedMinus(first_run.pairing) \subseteq PairedMinus(pairing)
        /\ PairedPlus(first_run.pairing) \subseteq PairedPlus(pairing)

\* C4, amended: when the first minus line is paired under the smaller
\* threshold, it is paired under the larger one too, with the same plus line
\* or an earlier one.
FirstMinusLineThresholdMonotone ==
    (pc = "done" /\ first_run.done) =>
        \A p \in first_run.pairing :
            p[1] = 1 => \E q \in pairing : q[1] = 1 /\ q[2] <= p[2]

\* The larger threshold moves the first minus line's match to an earlier
\* plus line.
FirstMinusLineWitness ==
    /\ pc = "done"
    /\ first_run.done
    /\ first_run.max_line_distance # max_line_distance
    /\ <<1, 2>> \in first_run.pairing
    /\ <<1, 1>> \in pairing

\* C5 as stated, in the direction "only if": under the contract, a distance
\* of 0 means every operation of the script is NoOp (a script with a
\* Deletion, Insertion or Substitution run has a distance that is not 0).
ZeroDistanceOnlyIfAllNoOp ==
    (Annotated /\ DistanceIsZero) =>
        \A k \in DOMAIN last.alignment.ops : last.alignment.ops[k][1] = "NoOp"

\* C5, amended: the distance is 0 exactly when every contributing section of
\* a Deletion, Insertion or Substitution run is empty once trimmed and some
\* NoOp run's minus section is not; a changed run whose contributing section
\* has a character that is not white space makes the distance positive.
ZeroDistanceIffNoVisibleChange ==
    Annotated =>
        LET runs == LastRuns
            Visible(k) == trim(Contributing(runs[k])) # <<>>
            Changed(k) == runs[k].op # "NoOp"
        IN  /\ DistanceIsZero <=>
                  /\ \A k \in DOMAIN runs : Changed(k) => ~Visible(k)
                  /\ \E k \in DOMAIN runs : ~Changed(k) /\ Visible(k)
            /\ (\E k \in DOMAIN runs : Changed(k) /\ Visible(k)) =>
                  (last.result.d_numer > 0 /\ last.result.d_denom > 0)

\* A script with an Insertion of white space only: the distance is 0.
ZeroDistanceWitness ==
    /\ Annotated
    /\ DistanceIsZero
    /\ \E k \in DOMAIN last.alignment.ops :
         last.alignment.ops[k][1] = "Insertion"

\* C6: a comparison whose distance denominator is zero is accepted as
\* homologous, for every max_line_distance >= 0.
ZeroDenominatorAccepted ==
    (last.compared /\ ~last.result.panicked /\ last.result.d_denom = 0) =>
        last.accepted

\* C7: a script that breaks the full-consumption contract never lets
\* annotate return: it panics.
ContractViolationPanics ==
    (last.compared /\ ~last.contract) => last.result.panicked

\* C8: when infer_edits returns, every unpaired minus line is the single
\* entry (noop_deletion, line) and every unpaired plus line, skipped before
\* a match or left after the last minus line, is (noop_insertion, line).
UnpairedWholeLine ==
    pc = "done" =>
        /\ \A k \in DOMAIN annotated_minus_lines :
             minus_from[k] \notin PairedMinus(pairing) =>
                 annotated_minus_lines[k]
                     = <<<<MinusNoop, minus_lines[minus_from[k]]>>>>
        /\ \A k \in DOMAIN annotated_plus_lines :
             plus_from[k] \notin PairedPlus(pairing) =>
                 annotated_plus_lines[k]
                     = <<<<PlusNoop, plus_lines[plus_from[k]]>>>>

\* An unpaired minus line, then a pair that skips one plus line and leaves
\* another.
UnpairedWholeLineWitness ==
    /\ pc = "done"
    /\ pairing = {<<2, 2>>}
    /\ Len(plus_lines) = 3
    /\ \A j \in 1..3 : plus_lines[j] # <<>>
    /\ minus_lines[1] # <<>>

\* C9 as stated: under the contract, no two consecutive entries of an
\* annotated line carry the same label.
NoSameLabelTwice ==
    Annotated =>
        /\ ~HasSameLabelTwice(last.result.annotated_minus_line)
        /\ ~HasSameLabelTwice(last.result.annotated_plus_line)

RECURSIVE MinusEntries(_)
MinusEntries(runs) ==
    IF runs = <<>> THEN <<>>
    ELSE (IF Head(runs).op = "Insertion" THEN <<>>
          ELSE <<<<IF Head(runs).op = "NoOp" THEN MinusNoop ELSE Deletion,
                   Head(runs).minus>>>>)
         \o MinusEntries(Tail(runs))

RECURSIVE PlusEntries(_)
PlusEntries(runs) ==
    IF runs = <<>> THEN <<>>
    ELSE (IF Head(runs).op = "Deletion" THEN <<>>
          ELSE <<<<IF Head(runs).op = "NoOp" THEN PlusNoop ELSE Insertion,
                   Head(runs).plus>>>>)
         \o PlusEntries(Tail(runs))

\* C9, amended: the tokens of one run of the script are coalesced into one
\* substring: the annotated minus line has exactly one entry per run that is
\* not an Insertion, the annotated plus line one per run that is not a
\* Deletion, each the text of that run's tokens under that run's label.
OneEntryPerRun ==
    (last.compared /\ last.contract) =>
        /\ ~last.result.panicked
        /\ last.result.annotated_minus_line = MinusEntries(LastRuns)
        /\ last.result.annotated_plus_line = PlusEntries(LastRuns)

\* NoOp, Insertion, NoOp: two adjacent noop_deletion entries in the minus
\* line.
OneEntryPerRunWitness ==
    /\ Annotated
    /\ Len(last.alignment.ops) = 3
    /\ last.alignment.ops[2][1] = "Insertion"
    /\ last.result.annotated_minus_line
           = <<<<MinusNoop, <<"a">>>>, <<MinusNoop, <<",">>>>>>

\* C10 as stated: tokenize never emits an empty token.
NoEmptyToken ==
    last.compared =>
        /\ \A k \in DOMAIN last.alignment.x : last.alignment.x[k] # <<>>
        /\ \A k \in DOMAIN last.alignment.y : last.alignment.y[k] # <<>>

EmptyTokenOnlyLeading(line, tokens) ==
    \A k \in DOMAIN tokens :
        tokens[k] = <<>> <=>
            (k = 1 /\ line # <<>> /\ line[1] \in separators)

\* C10, amended: tokenize emits an empty token only as the first token, and
\* exactly when the line begins with a separator character; every other
\* token has length >= 1, and the empty line has no token.
EmptyTokenOnlyFirst ==
    last.compared =>
        /\ EmptyTokenOnlyLeading(last.minus_line, last.alignment.x)
        /\ EmptyTokenOnlyLeading(last.plus_line, last.alignment.y)
        /\ last.minus_line = <<>> => last.alignment.x = <<>>

\* A line that begins with a separator and goes on with content: an empty
\* token, the separator run, the content run.
EmptyTokenWitness ==
    /\ last.compared
    /\ Len(last.alignment.x) = 3
    /\ last.alignment.x[1] = <<>>
    /\ last.alignment.y = <<>>
    /\ last.plus_line = <<>>

====
